---- MODULE Spec2Model ----
(***************************************************************************)
(* The Albums pane of rmpc (src/ui/panes/albums.rs): a navigation stack    *)
(* over a remote catalog, queries that run off the interactive thread and  *)
(* come back as completion events, and commands sent to the play queue.    *)
(*                                                                         *)
(* The pane's handlers are operators over a record of everything a handler *)
(* can touch (St); an action applies one whole handler.  DirStack, the     *)
(* query scheduler and the common key handling live outside albums.rs;     *)
(* they are modelled from the specification's sections 3 to 7.             *)
(***************************************************************************)
EXTENDS Integers, Sequences, FiniteSets, TLC

\* ------------------------------------------------------------------ bounds
\* queries submitted and not yet completed (superseded ones included)
MaxOutstanding == 2
\* length of the play queue
MaxQueue == 1

\* --------------------------------------------------------------- constants
INIT == "init"
OPEN_OR_PLAY == "open_or_play"
PREVIEW == "preview"
\* the replace_id of both preview queries
PREVIEW_SLOT == "albums_preview"

\* Option<T> as a sequence of at most one element
None == << >>
Some(x) == << x >>

\* ----------------------------------------------------------------- catalog
Groups == << "A", "B" >>
\* the comparator of with_custom_sort: songs are ordered by this rank
FileRank == [f \in {"e1", "e2", "e3"} |-> CASE f = "e1" -> 1 [] f = "e2" -> 2 [] f = "e3" -> 3]

\* the songs of the remote database, per album, in the server's order
Catalogs ==
  { [A |-> << "e3", "e1", "e2" >>, B |-> << "e2" >>],
    [A |-> << "e2" >>,             B |-> << >>],
    [A |-> << >>,                  B |-> << >>] }

Song(album, file) == [kind |-> "song", name |-> file, album |-> album]
DirItem(name) == [kind |-> "dir", name |-> name, album |-> ""]

\* client.find(&[Filter(Album, album)]): the matches in server order
FindAlbum(cat, album) ==
  IF album \in DOMAIN cat
  THEN [i \in 1..Len(cat[album]) |-> Song(album, cat[album][i])]
  ELSE << >>

\* client.find(&[Filter(File, file), Filter(Album, album)])
FindFileAlbum(cat, album, file) ==
  SelectSeq(FindAlbum(cat, album), LAMBDA s : s.name = file)

\* client.list_tag(Tag::Album, None): the distinct album names of the songs
ListTag(cat) ==
  SelectSeq(Groups, LAMBDA g : Len(cat[g]) > 0)

RECURSIVE InsertSorted(_, _)
InsertSorted(s, sorted) ==
  IF sorted = << >> THEN << s >>
  ELSE IF FileRank[s.name] < FileRank[Head(sorted).name]
       THEN << s >> \o sorted
       ELSE << Head(sorted) >> \o InsertSorted(s, Tail(sorted))

RECURSIVE SortedBy(_)
\* Itertools::sorted_by with the with_custom_sort comparator (stable)
SortedBy(songs) ==
  IF songs = << >> THEN << >>
  ELSE InsertSorted(songs[Len(songs)], SortedBy(SubSeq(songs, 1, Len(songs) - 1)))

\* list_titles without the sort: the server's order
ListTitlesUnsorted(cat, album) == FindAlbum(cat, album)

\* list_titles: the songs of the album, sorted, as DirOrSong::Song
list_titles(cat, album) == SortedBy(FindAlbum(cat, album))

\* find_songs: the first match after sorting, or the "Expected to find
\* exactly one song" error naming the album and the file
find_songs(cat, album, file) ==
  LET found == SortedBy(FindFileAlbum(cat, album, file)) IN
  IF found = << >>
  THEN [ok |-> FALSE, song |-> None, err |-> Some([album |-> album, file |-> file])]
  ELSE [ok |-> TRUE, song |-> Some(found[1]), err |-> None]

\* --------------------------------------------------------------- DirStack
\* a Dir: the items of a level and the selected index (0: nothing selected)
Dir(items, sel) == [items |-> items, sel |-> sel]

\* DirStack::default(): one empty level
StackDefault == [dirs |-> << Dir(<< >>, 0) >>, path |-> << >>, preview |-> None]

\* DirStack::new(root): one level, its first item selected
StackNew(root) ==
  [dirs |-> << Dir(root, IF root = << >> THEN 0 ELSE 1) >>, path |-> << >>, preview |-> None]

Current(stack) == stack.dirs[Len(stack.dirs)]

\* Dir::selected()
Selected(dir) == IF dir.sel = 0 THEN None ELSE Some(dir.items[dir.sel])

\* DirStackItem::as_path and DirOrSong::dir_name_or_file_name
AsPath(item) == item.name

Path(stack) == stack.path

\* DirStack::next_path(): the path extended with the selected item's name
NextPath(stack) ==
  LET cur == Selected(Current(stack)) IN
  IF cur = None THEN None ELSE Some(Append(stack.path, AsPath(cur[1])))

\* DirStack::push(items): the selected name joins the path, a level is added
Push(stack, items) ==
  LET cur == Selected(Current(stack)) IN
  [stack EXCEPT !.dirs = Append(@, Dir(items, IF items = << >> THEN 0 ELSE 1)),
                !.path = IF cur = None THEN @ ELSE Append(@, AsPath(cur[1]))]

\* DirStack::pop(): the top level is dropped; the root level stays
Pop(stack) ==
  IF Len(stack.dirs) > 1
  THEN [stack EXCEPT !.dirs = SubSeq(@, 1, Len(@) - 1),
                     !.path = SubSeq(@, 1, Len(@) - 1)]
  ELSE stack

\* DirStack::replace(items): the top level's items, the selection clamped
Replace(stack, items) ==
  LET old == Current(stack)
      sel == IF items = << >> THEN 0
             ELSE IF old.sel = 0 THEN 1
             ELSE IF old.sel > Len(items) THEN Len(items)
             ELSE old.sel
  IN [stack EXCEPT !.dirs[Len(stack.dirs)] = Dir(items, sel)]

ClearPreview(stack) == [stack EXCEPT !.preview = None]

SetPreview(stack, data) == [stack EXCEPT !.preview = data]

\* selecting the i-th item of the top level
Select(stack, i) == [stack EXCEPT !.dirs[Len(stack.dirs)].sel = i]

\* ------------------------------------------------------ the query scheduler
\* a query as handed to context.query(): id, replace_id (an Option),
\* the origin_path it will answer with, and what its closure captured
Query(id, replace_id, origin_path, work, album, name) ==
  [id |-> id, key |-> replace_id, stale |-> FALSE, origin_path |-> origin_path,
   work |-> work, album |-> album, name |-> name]

\* a superseded query may still run, but its result is ignored: what its
\* closure captured no longer matters and is not kept
Stale(q) ==
  [q EXCEPT !.stale = TRUE, !.origin_path = None, !.work = "", !.album = "", !.name = ""]

\* the queries still outstanding under the new query's replace_id are
\* superseded
Supersede(queries, q) ==
  [i \in 1..Len(queries) |->
     IF q.key # None /\ queries[i].key = q.key
     THEN Stale(queries[i])
     ELSE queries[i]]

\* context.query()...query(work): queries are kept in submission order
Submit(st, q) == [st EXCEPT !.queries = Append(Supersede(@, q), q)]

\* context.command(work)
Command(st, c) == [st EXCEPT !.cmds = Append(@, c)]

\* context.render()
Render(st) == [st EXCEPT !.render = TRUE]

\* ------------------------------------------------------------- the queries
\* before_show: list the album tags, no origin_path
BeforeShowQuery == Query(INIT, Some(INIT), None, "list_tag", "", "")

\* the Database query sent without a replace_id
DatabaseQueryNoReplace == Query(INIT, None, None, "list_tag", "", "")

\* on_event(Database): the same query
DatabaseQuery == Query(INIT, Some(INIT), None, "list_tag", "", "")

\* the open query tagged with the path before the push
OpenQueryAtPath(current, next_path) ==
  Query(OPEN_OR_PLAY, Some(OPEN_OR_PLAY), Some(SubSeq(next_path, 1, Len(next_path) - 1)),
        "list_titles", "", current)

\* open_or_play at the root: the titles of the selected album
OpenQuery(current, next_path) ==
  Query(OPEN_OR_PLAY, Some(OPEN_OR_PLAY), Some(next_path), "list_titles", "", current)

\* prepare_preview inside an album: the one song of that name
SongPreviewQuery(album, current, origin_path) ==
  Query(PREVIEW, Some(PREVIEW_SLOT), origin_path, "find_songs", album, current)

\* prepare_preview at the root: the titles of the hovered album
AlbumPreviewQuery(current, origin_path) ==
  Query(PREVIEW, Some(PREVIEW_SLOT), origin_path, "preview_titles", "", current)

\* ------------------------------------------------------------ the commands
FindAddSong(name, album) == [cmd |-> "find_add", file |-> name, album |-> album, pos |-> 0]
FindAddAlbum(name) == [cmd |-> "find_add", file |-> "", album |-> name, pos |-> 0]
AddLibrary == [cmd |-> "add", file |-> "/", album |-> "", pos |-> 0]
PlayLast(queue_len) == [cmd |-> "play_last", file |-> "", album |-> "", pos |-> queue_len]

\* ------------------------------------------------------------ the handlers
\* AlbumsPane::new
NewPane ==
  [stack |-> StackDefault, initialized |-> FALSE, queries |-> << >>, cmds |-> << >>,
   render |-> FALSE, outcome |-> "none"]

prepare_preview(st) ==
  LET cur == Selected(Current(st.stack)) IN
  IF cur = None THEN st
  ELSE LET current == AsPath(cur[1])
           origin_path == Some(Path(st.stack))
           s1 == [st EXCEPT !.stack = ClearPreview(@)]
           path == Path(s1.stack)
       IN CASE Len(path) = 1 -> Submit(s1, SongPreviewQuery(path[1], current, origin_path))
            [] Len(path) = 0 -> Submit(s1, AlbumPreviewQuery(current, origin_path))
            [] OTHER -> s1

\* add inside an album filtering by the file alone
AddFileOnly(st, item) ==
  LET path == Path(st.stack) IN
  CASE Len(path) = 1 -> Command(st, FindAddSong(AsPath(item), ""))
    [] Len(path) = 0 -> Command(st, FindAddAlbum(AsPath(item)))
    [] OTHER -> st

add(st, item) ==
  LET path == Path(st.stack) IN
  CASE Len(path) = 1 -> Command(st, FindAddSong(AsPath(item), path[1]))
    [] Len(path) = 0 -> Command(st, FindAddAlbum(AsPath(item)))
    [] OTHER -> st

\* add_all adding the whole library wherever it is called
AddAllLibrary(st) == Command(st, AddLibrary)

add_all(st) ==
  LET path == Path(st.stack) IN
  CASE Len(path) = 1 -> Command(st, FindAddAlbum(path[1]))
    [] Len(path) = 0 -> Command(st, AddLibrary)
    [] OTHER -> st

\* the [_album] arm playing at the length the queue has after the enqueue
OpenSongPlayAfter(st, current, autoplay, queue_len) ==
  LET s1 == add(st, current) IN
  IF autoplay THEN Command(s1, PlayLast(queue_len + 1)) ELSE s1

\* the [_album] arm of open_or_play: enqueue, then play at the known length
OpenSong(st, current, autoplay, queue_len) ==
  LET s1 == add(st, current) IN
  IF autoplay THEN Command(s1, PlayLast(queue_len)) ELSE s1

\* the [] arm of open_or_play: submit, push a placeholder, clear, render
OpenAlbum(st, current, next_path) ==
  LET s1 == Submit(st, OpenQuery(AsPath(current), next_path))
      s2 == [s1 EXCEPT !.stack = Push(@, << >>)]
      s3 == [s2 EXCEPT !.stack = ClearPreview(@)]
  IN Render(s3)

\* open_or_play without the return on a missing selection: the root arm runs
OpenOrPlayUnguarded(st, autoplay, queue_len) ==
  LET cur == Selected(Current(st.stack))
      next_path == NextPath(st.stack)
      path == Path(st.stack)
  IN IF cur = None
     THEN IF Len(path) = 0
          THEN Render([st EXCEPT !.stack = ClearPreview(Push(@, << >>))])
          ELSE st
     ELSE IF next_path = None THEN st
     ELSE CASE Len(path) = 1 -> OpenSong(st, cur[1], autoplay, queue_len)
            [] Len(path) = 0 -> OpenAlbum(st, cur[1], next_path[1])
            [] OTHER -> Render(st)

\* open_or_play drilling down at every depth
OpenOrPlayAlwaysDrills(st, autoplay, queue_len) ==
  LET cur == Selected(Current(st.stack))
      next_path == NextPath(st.stack)
  IN IF cur = None THEN st
     ELSE IF next_path = None THEN st
     ELSE OpenAlbum(st, cur[1], next_path[1])

\* open_or_play sending the play command although nothing is selected
OpenOrPlayPlaysAnyway(st, autoplay, queue_len) ==
  LET cur == Selected(Current(st.stack))
      next_path == NextPath(st.stack)
      path == Path(st.stack)
  IN IF cur = None
     THEN IF autoplay THEN Command(st, PlayLast(queue_len)) ELSE st
     ELSE IF next_path = None THEN st
     ELSE CASE Len(path) = 1 -> OpenSong(st, cur[1], autoplay, queue_len)
            [] Len(path) = 0 -> OpenAlbum(st, cur[1], next_path[1])
            [] OTHER -> Render(st)

open_or_play(st, autoplay, queue_len) ==
  LET cur == Selected(Current(st.stack))
      next_path == NextPath(st.stack)
      path == Path(st.stack)
  IN IF cur = None THEN st
     ELSE IF next_path = None THEN st
     ELSE CASE Len(path) = 1 -> OpenSong(st, cur[1], autoplay, queue_len)
            [] Len(path) = 0 -> OpenAlbum(st, cur[1], next_path[1])
            [] OTHER -> Render(st)

\* before_show that forgets to set the flag
BeforeShowNoFlag(st) ==
  IF ~st.initialized THEN Submit(st, BeforeShowQuery) ELSE st

before_show(st) ==
  IF ~st.initialized
  THEN [Submit(st, BeforeShowQuery) EXCEPT !.initialized = TRUE]
  ELSE st

on_event(st, event) ==
  CASE event = "Database" -> Submit(st, DatabaseQuery)
    [] event = "Reconnected" -> before_show([st EXCEPT !.initialized = FALSE])
    [] OTHER -> st

Applied(st) == [st EXCEPT !.outcome = "applied"]
Dropped(st) == [st EXCEPT !.outcome = "dropped"]

\* the PREVIEW arm without the comparison of paths
PreviewFinishedNoCheck(st, data, origin_path) ==
  Render(Applied([st EXCEPT !.stack = SetPreview(@, data)]))

\* the (PREVIEW, Preview) arm of on_query_finished
PreviewFinished(st, data, origin_path) ==
  IF origin_path # None /\ origin_path[1] # Path(st.stack)
  THEN Dropped(st)
  ELSE Render(Applied([st EXCEPT !.stack = SetPreview(@, data)]))

\* the INIT arm filling the current level instead of rebuilding the stack
InitFinishedReplace(st, data) ==
  LET root == [i \in 1..Len(data) |-> DirItem(data[i])] IN
  prepare_preview(Applied([st EXCEPT !.stack = Replace(@, root)]))

\* the (INIT, LsInfo) arm
InitFinished(st, data) ==
  LET root == [i \in 1..Len(data) |-> DirItem(data[i])] IN
  prepare_preview(Applied([st EXCEPT !.stack = StackNew(root)]))

\* the OPEN_OR_PLAY arm without the comparison of paths
OpenFinishedNoCheck(st, data, origin_path) ==
  Render(prepare_preview(Applied([st EXCEPT !.stack = Replace(@, data)])))

\* the OPEN_OR_PLAY arm filling the level without planning its preview
OpenFinishedNoPreview(st, data, origin_path) ==
  IF origin_path # None /\ origin_path[1] # Path(st.stack)
  THEN Dropped(st)
  ELSE Render(Applied([st EXCEPT !.stack = Replace(@, data)]))

\* the (OPEN_OR_PLAY, DirOrSong) arm
OpenFinished(st, data, origin_path) ==
  IF origin_path # None /\ origin_path[1] # Path(st.stack)
  THEN Dropped(st)
  ELSE Render(prepare_preview(Applied([st EXCEPT !.stack = Replace(@, data)])))

on_query_finished(st, id, res) ==
  CASE id = PREVIEW /\ res.type = "Preview" -> PreviewFinished(st, res.data, res.origin_path)
    [] id = INIT /\ res.type = "LsInfo" -> InitFinished(st, res.data)
    [] id = OPEN_OR_PLAY /\ res.type = "DirOrSong" -> OpenFinished(st, res.data, res.origin_path)
    [] OTHER -> st

\* ------------------------------------------------- the closures of queries
Names(items) == [i \in 1..Len(items) |-> items[i].name]

\* a preview remembers the origin_path and the item it was computed for
PreviewOf(q, entries) ==
  Some([origin_path |-> q.origin_path, item |-> q.name, entries |-> entries])

Ok(type, data, origin_path) ==
  [ok |-> TRUE, type |-> type, data |-> data, origin_path |-> origin_path, err |-> None]

Err(err) ==
  [ok |-> FALSE, type |-> "Error", data |-> << >>, origin_path |-> None, err |-> err]

\* the closure answering a lookup without matches with an empty preview
SongPreviewWorkSilent(cat, q) ==
  LET found == find_songs(cat, q.album, q.name) IN
  IF found.ok
  THEN Ok("Preview", PreviewOf(q, << found.song[1].name >>), q.origin_path)
  ELSE Ok("Preview", PreviewOf(q, << >>), q.origin_path)

\* the closure of the song preview: find_songs(...)?.to_preview(...)
SongPreviewWork(cat, q) ==
  LET found == find_songs(cat, q.album, q.name) IN
  IF found.ok
  THEN Ok("Preview", PreviewOf(q, << found.song[1].name >>), q.origin_path)
  ELSE Err(found.err)

\* what the worker's run of the query's closure returns on this catalog
RunWork(cat, q) ==
  CASE q.work = "list_tag" -> Ok("LsInfo", ListTag(cat), None)
    [] q.work = "list_titles" -> Ok("DirOrSong", list_titles(cat, q.name), q.origin_path)
    [] q.work = "preview_titles" ->
         Ok("Preview", PreviewOf(q, Names(list_titles(cat, q.name))), q.origin_path)
    [] q.work = "find_songs" -> SongPreviewWork(cat, q)

\* ------------------------------------------------------------------- state
VARIABLES
  stack,        \* AlbumsPane.stack
  initialized,  \* AlbumsPane.initialized
  queries,      \* the queries submitted and not yet completed, oldest first
  cmds,         \* the commands the last step sent to the client, in order
  catalog,      \* the songs of the remote database
  queueLen,     \* context.queue.len(): the length of the play queue known here
  mpd,          \* the client thread's pending commands and the server's queue
  ev            \* what the last step did

vars == << stack, initialized, queries, cmds, catalog, queueLen, mpd, ev >>

\* the server before any command: nothing pending, an empty play queue,
\* nothing playing; base and added describe the last enqueue it ran
NewMpd == [pending |-> << >>, len |-> 0, base |-> 0, added |-> 0, playing |-> None]

\* what a handler sees when it starts
St ==
  [stack |-> stack, initialized |-> initialized, queries |-> queries, cmds |-> << >>,
   render |-> FALSE, outcome |-> "none"]

\* the record of a step: the handler, the id of the query it completed, the
\* path the handler found, whether it applied a result, whether it asked
\* for a redraw, the error it reported
Ev(op, id, s, err) ==
  [op |-> op, id |-> id, path |-> Path(stack), outcome |-> s.outcome,
   render |-> s.render, err |-> err]

\* a handler's effects become the next state
Commit(s, op, id, err) ==
  \E done \in {s} :
    /\ Len(done.queries) <= MaxOutstanding
    /\ stack' = done.stack
    /\ initialized' = done.initialized
    /\ queries' = done.queries
    /\ cmds' = done.cmds
    /\ ev' = Ev(op, id, done, err)
    /\ UNCHANGED << catalog, queueLen, mpd >>

Init ==
  /\ stack = NewPane.stack
  /\ initialized = NewPane.initialized
  /\ queries = NewPane.queries
  /\ cmds = NewPane.cmds
  /\ catalog \in Catalogs
  /\ queueLen \in 0..MaxQueue
  /\ mpd = NewMpd
  /\ ev = Ev("new", "", NewPane, None)

\* ----------------------------------------------------------------- actions
BeforeShow == Commit(before_show(St), "before_show", "", None)

OnEvent(event) == Commit(on_event(St, event), event, "", None)

\* BrowserPane::open (autoplay) and BrowserPane::next (no autoplay)
OpenOrPlay(autoplay) ==
  Commit(open_or_play(St, autoplay, queueLen), "open_or_play", "", None)

\* the common Add action on the selected item
Add ==
  /\ Selected(Current(stack)) # None
  /\ Commit(add(St, Selected(Current(stack))[1]), "add", "", None)

AddAll == Commit(add_all(St), "add_all", "", None)

\* the common Left action: leave the level, plan the preview, render
Back ==
  /\ Len(stack.dirs) > 1
  /\ Commit(Render(prepare_preview([St EXCEPT !.stack = Pop(@)])), "back", "", None)

\* the common Up/Down actions and a click: select, plan the preview, render
SelectItem(i) ==
  /\ i \in 1..Len(Current(stack).items)
  /\ i # Current(stack).sel
  /\ Commit(Render(prepare_preview([St EXCEPT !.stack = Select(@, i)])), "select", "", None)

RemoveAt(seq, i) == SubSeq(seq, 1, i - 1) \o SubSeq(seq, i + 1, Len(seq))

\* the event loop on a completed query: a superseded query's result is
\* ignored, an error goes to the status line, a result goes to the pane
Deliver(st, q, res) ==
  IF q.stale THEN [st EXCEPT !.outcome = "superseded"]
  ELSE IF ~res.ok THEN [st EXCEPT !.outcome = "error"]
  ELSE on_query_finished(st, q.id, res)

\* the i-th outstanding query completes: the worker runs its closure on the
\* catalog as it is and the interactive thread handles the completion
QueryFinished(i) ==
  /\ i \in 1..Len(queries)
  /\ \E q \in {queries[i]} :
     \E res \in {IF q.stale THEN Err(None) ELSE RunWork(catalog, q)} :
     \E st \in {[St EXCEPT !.queries = RemoveAt(queries, i)]} :
       Commit(Deliver(st, q, res), "query_finished", q.id,
              IF q.stale THEN None ELSE res.err)

\* a step of the environment, which no handler of the pane sees
Quiet(op) == Ev(op, "", NewPane, None)

\* the database changes under the pane
CatalogUpdate ==
  /\ catalog' \in Catalogs \ {catalog}
  /\ cmds' = << >>
  /\ ev' = Quiet("env")
  /\ UNCHANGED << stack, initialized, queries, queueLen, mpd >>

\* the play queue changes and the queue event brings the new length
QueueChanged ==
  /\ queueLen' \in (0..MaxQueue) \ {queueLen}
  /\ cmds' = << >>
  /\ ev' = Quiet("env")
  /\ UNCHANGED << stack, initialized, queries, catalog, mpd >>

Next ==
  \/ BeforeShow
  \/ \E event \in {"Database", "Reconnected", "Other"} : OnEvent(event)
  \/ \E autoplay \in BOOLEAN : OpenOrPlay(autoplay)
  \/ Add
  \/ AddAll
  \/ Back
  \/ \E i \in DOMAIN Current(stack).items : SelectItem(i)
  \/ \E i \in 1..MaxOutstanding : QueryFinished(i)
  \/ CatalogUpdate
  \/ QueueChanged

Spec == Init /\ [][Next]_vars

\* ------------------------------------------------------------------ claims
\* the i-th outstanding query's result reaches on_query_finished
Delivered(i) ==
  /\ i \in 1..Len(queries)
  /\ ~queries[i].stale
  /\ RunWork(catalog, queries[i]).ok

\* on_query_finished left the pane as it was: nothing shown changed, no
\* query was submitted, no command was sent, no redraw was asked for
LeftAlone(i) ==
  /\ stack' = stack
  /\ queries' = RemoveAt(queries, i)
  /\ cmds' = << >>
  /\ ~ev'.render

\* the payload of the i-th query's result is what the pane shows
Shown(i) ==
  LET q == queries[i]
      res == RunWork(catalog, q)
  IN CASE q.id = PREVIEW -> stack'.preview = res.data
       [] q.id = OPEN_OR_PLAY -> Current(stack').items = res.data
       [] q.id = INIT ->
            /\ Len(stack'.dirs) = 1
            /\ Names(Current(stack').items) = res.data

\* C1 as stated: a result delivered to on_query_finished is applied if and
\* only if its origin_path equals path() at the moment of completion, and a
\* result that is not applied leaves the stack, the preview and the
\* outstanding queries alone and asks for no redraw.
C1_AppliedIffOriginIsPath ==
  [][\A i \in 1..MaxOutstanding :
       (ev'.op = "query_finished" /\ Delivered(i) /\ QueryFinished(i)) =>
         /\ (ev'.outcome = "applied") <=> (queries[i].origin_path = Some(Path(stack)))
         /\ (ev'.outcome # "applied") => LeftAlone(i)]_vars

\* C1 amended: a result that carries an origin_path (a drill-down or a
\* preview result) is applied if and only if that origin_path equals path()
\* at the moment of completion; a result without origin_path (INIT) is
\* always applied; a result that is not applied leaves the stack, the
\* preview and the other outstanding queries alone and asks for no redraw.
C1_TaggedAppliedIffOriginIsPath ==
  [][\A i \in 1..MaxOutstanding :
       (ev'.op = "query_finished" /\ Delivered(i) /\ QueryFinished(i)) =>
         /\ (queries[i].origin_path # None) =>
              ((ev'.outcome = "applied") <=> (queries[i].origin_path = Some(Path(stack))))
         /\ (queries[i].origin_path = None) => (ev'.outcome = "applied")
         /\ (ev'.outcome = "applied") => Shown(i)
         /\ (ev'.outcome # "applied") => LeftAlone(i)]_vars

\* a preview result was dropped because the path had moved on
C1_Witness ==
  /\ ev.op = "query_finished"
  /\ ev.id = PREVIEW
  /\ ev.outcome = "dropped"

\* the supersession key the pane uses for each query id
SlotOf(id) ==
  CASE id = INIT -> Some(INIT)
    [] id = OPEN_OR_PLAY -> Some(OPEN_OR_PLAY)
    [] id = PREVIEW -> Some(PREVIEW_SLOT)

\* the i-th outstanding query is the last one submitted under its key
Latest(i) ==
  \A j \in 1..Len(queries) : (j > i) => (queries[j].key # queries[i].key)

\* the number of superseded queries among the outstanding ones
StaleCount(qs) == Cardinality({j \in 1..Len(qs) : qs[j].stale})

\* C2: of two queries submitted under the same key (INIT, OPEN_OR_PLAY or
\* "albums_preview") before either completes, the earlier one is superseded
\* for good and never applied, in whatever order they complete; the later
\* one is applied when it resolves with its origin_path equal to the live
\* path and has not itself been superseded.
C2_OnlyLatestOfSlotApplied ==
  [][/\ \A i \in 1..Len(queries) :
          /\ queries[i].key = SlotOf(queries[i].id)
          /\ ~Latest(i) => queries[i].stale
     /\ \A i \in 1..Len(queries) :
          (ev'.op = "query_finished" /\ QueryFinished(i)) =>
            /\ (queries[i].stale \/ ~Latest(i)) =>
                 (ev'.outcome # "applied" /\ LeftAlone(i))
            /\ (ev'.outcome = "applied") => Latest(i)
            /\ (Delivered(i) /\ queries[i].origin_path = Some(Path(stack))) =>
                 (ev'.outcome = "applied" /\ Shown(i))
     /\ StaleCount(queries') >= StaleCount(queries) - 1
     /\ (StaleCount(queries') < StaleCount(queries)) =>
          (ev'.op = "query_finished" /\ ev'.outcome = "superseded")]_vars

\* the later of two drill-down queries was applied while the earlier one,
\* superseded, is still outstanding
C2_Witness ==
  /\ ev.op = "query_finished"
  /\ ev.id = OPEN_OR_PLAY
  /\ ev.outcome = "applied"
  /\ \E i \in 1..Len(queries) : queries[i].id = OPEN_OR_PLAY /\ queries[i].stale

\* C3: the preview is absent or was computed for an origin_path equal to
\* the current path(); a preview computed for a path that is no longer the
\* live path is never in the stack.
C3_PreviewBelongsToPath ==
  \/ stack.preview = None
  \/ stack.preview[1].origin_path = Some(Path(stack))

\* back at the root, the fetch of a preview issued inside an album resolved
\* and did not populate the preview
C3_Witness ==
  /\ ev.op = "query_finished"
  /\ ev.id = PREVIEW
  /\ ev.outcome = "dropped"
  /\ ev.path = << >>
  /\ Path(stack) = << >>
  /\ stack.preview = None

\* the handler applied the result of a query with this id
AppliedResult(id) ==
  /\ ev.op = "query_finished"
  /\ ev.id = id
  /\ ev.outcome = "applied"

\* C4: when the fetch that open submitted for "A" is applied, the top level
\* is the fetched entries in the comparator's order and path() is ["A"]:
\* with the songs e3, e1, e2 of "A" it is [e1, e2, e3].
C4_DrillDownShowsSortedEntries ==
  AppliedResult(OPEN_OR_PLAY) =>
    /\ Len(Path(stack)) = 1
    /\ Len(stack.dirs) = 2
    /\ Path(stack) = ev.path
    /\ \A k \in 1..(Len(Current(stack).items) - 1) :
         FileRank[Current(stack).items[k].name] <= FileRank[Current(stack).items[k + 1].name]
    /\ {Current(stack).items[k] : k \in 1..Len(Current(stack).items)}
         = {Song(Path(stack)[1], catalog[Path(stack)[1]][k]) :
              k \in 1..Len(catalog[Path(stack)[1]])}
    /\ (Path(stack) = << "A" >> /\ catalog["A"] = << "e3", "e1", "e2" >>) =>
         Current(stack).items = << Song("A", "e1"), Song("A", "e2"), Song("A", "e3") >>

\* the fetch for "A" resolved with three entries below the root ["A", "B"]
C4_Witness ==
  /\ AppliedResult(OPEN_OR_PLAY)
  /\ Names(stack.dirs[1].items) = << "A", "B" >>
  /\ Path(stack) = << "A" >>
  /\ Len(Current(stack).items) = 3

\* C5: open or next at the root with a group g selected submits exactly one
\* query, with id and key OPEN_OR_PLAY and origin_path = next_path() as it
\* was before the push, pushes an empty level, clears the preview and asks
\* for a redraw; afterwards path() is [g], the query's origin_path.
C5_OpenAtRoot ==
  [][\A autoplay \in BOOLEAN :
       ( /\ ev'.op = "open_or_play"
         /\ Path(stack) = << >>
         /\ Selected(Current(stack)) # None
         /\ OpenOrPlay(autoplay) ) =>
         LET g == Selected(Current(stack))[1].name
             q == queries'[Len(queries')]
         IN /\ Len(queries') = Len(queries) + 1
            /\ \A k \in 1..Len(queries) : queries'[k] \in {queries[k], Stale(queries[k])}
            /\ q.id = OPEN_OR_PLAY
            /\ q.key = Some(OPEN_OR_PLAY)
            /\ ~q.stale
            /\ q.origin_path = NextPath(stack)
            /\ q.origin_path = Some(<< g >>)
            /\ q.name = g
            /\ Len(stack'.dirs) = Len(stack.dirs) + 1
            /\ SubSeq(stack'.dirs, 1, Len(stack.dirs)) = stack.dirs
            /\ Current(stack').items = << >>
            /\ stack'.preview = None
            /\ ev'.render
            /\ cmds' = << >>
            /\ Path(stack') = << g >>
            /\ Some(Path(stack')) = q.origin_path]_vars

\* open at the root just pushed the placeholder for the selected group
C5_Witness ==
  /\ ev.op = "open_or_play"
  /\ ev.path = << >>
  /\ ev.render
  /\ Len(stack.dirs) = 2
  /\ Current(stack).items = << >>
  /\ queries # << >>
  /\ queries[Len(queries)].id = OPEN_OR_PLAY
  /\ queries[Len(queries)].origin_path = Some(Path(stack))

\* C6: open with autoplay on the selected entry of album "A" (and of any
\* album) sends the enqueue filtered to that file and that album, then
\* play-at-index with the queue length known before the enqueue was sent.
C6_OpenSongEnqueuesThenPlays ==
  [][\A autoplay \in BOOLEAN :
       ( /\ ev'.op = "open_or_play"
         /\ Len(Path(stack)) = 1
         /\ Selected(Current(stack)) # None
         /\ OpenOrPlay(autoplay) ) =>
         LET e == Selected(Current(stack))[1]
             enqueue == [cmd |-> "find_add", file |-> e.name, album |-> Path(stack)[1],
                         pos |-> 0]
             play == [cmd |-> "play_last", file |-> "", album |-> "", pos |-> queueLen]
         IN /\ cmds' = IF autoplay THEN << enqueue, play >> ELSE << enqueue >>
            /\ stack' = stack
            /\ queries' = queries]_vars

\* open with autoplay on e2 of album "A" sent the two commands
C6_Witness ==
  /\ ev.op = "open_or_play"
  /\ Path(stack) = << "A" >>
  /\ Selected(Current(stack)) = Some(Song("A", "e2"))
  /\ Len(cmds) = 2
  /\ cmds[1].cmd = "find_add" /\ cmds[1].file = "e2" /\ cmds[1].album = "A"
  /\ cmds[2].cmd = "play_last" /\ cmds[2].pos = queueLen
  /\ queueLen > 0

\* C7 as stated: a step of on_query_finished that applies a result (INIT,
\* drill-down or preview) asks for a redraw in that same step.
C7_AppliedThenRedraw ==
  (ev.op = "query_finished" /\ ev.outcome = "applied") => ev.render

\* C8: an INIT result is applied at any depth and path: afterwards the
\* stack is one level of the listed group names as Directory items, path()
\* is empty, the deeper levels are gone and the preview is absent.
C8_InitRebuildsStack ==
  [][\A i \in 1..MaxOutstanding :
       ( /\ ev'.op = "query_finished"
         /\ Delivered(i)
         /\ queries[i].id = INIT
         /\ QueryFinished(i) ) =>
         /\ ev'.outcome = "applied"
         /\ Len(stack'.dirs) = 1
         /\ stack'.dirs[1].items = [k \in 1..Len(ListTag(catalog)) |->
                                      [kind |-> "dir", name |-> ListTag(catalog)[k],
                                       album |-> ""]]
         /\ Path(stack') = << >>
         /\ stack'.preview = None]_vars

\* an INIT result was applied while the pane stood inside an album
C8_Witness ==
  /\ AppliedResult(INIT)
  /\ Len(ev.path) = 1
  /\ Len(stack.dirs) = 1
  /\ Path(stack) = << >>

\* the last outstanding query is a live INIT query without origin_path
InitSubmitted(qs, old) ==
  /\ Len(qs) = Len(old) + 1
  /\ qs[Len(qs)].id = INIT
  /\ qs[Len(qs)].key = Some(INIT)
  /\ qs[Len(qs)].origin_path = None
  /\ ~qs[Len(qs)].stale
  /\ \A k \in 1..Len(old) : old[k].id = INIT => qs[k].stale

\* C9: the first before_show, every Database event and every Reconnected
\* event submit an INIT query; a before_show after the first submits
\* nothing; the flag is set when before_show submits and no step leaves it
\* cleared again.
C9_InitSubmission ==
  [][/\ (ev'.op = "before_show" /\ BeforeShow /\ ~initialized) =>
          (InitSubmitted(queries', queries) /\ initialized')
     /\ (ev'.op = "before_show" /\ BeforeShow /\ initialized) =>
          (queries' = queries /\ stack' = stack /\ initialized')
     /\ (ev'.op = "Database" /\ OnEvent("Database")) =>
          (InitSubmitted(queries', queries) /\ initialized' = initialized)
     /\ (ev'.op = "Reconnected" /\ OnEvent("Reconnected")) =>
          (InitSubmitted(queries', queries) /\ initialized')
     /\ initialized => initialized'
     /\ (Len(queries') > Len(queries) /\ queries'[Len(queries')].id = INIT) =>
          ev'.op \in {"before_show", "Database", "Reconnected"}]_vars

\* before_show was called again and no INIT query is outstanding
C9_Witness ==
  /\ ev.op = "before_show"
  /\ initialized
  /\ Len(stack.dirs) = 2
  /\ \A k \in 1..Len(queries) : queries[k].id # INIT

\* C10: inside album "A" (or any album), a preview lookup by file and album
\* without matches ends in an error naming the album and the file; no
\* Preview result comes of it, and the preview, absent, stays absent.
C10_PreviewLookupWithoutMatchIsError ==
  [][\A i \in 1..MaxOutstanding :
       ( /\ ev'.op = "query_finished"
         /\ i <= Len(queries)
         /\ ~queries[i].stale
         /\ queries[i].work = "find_songs"
         /\ \A k \in 1..Len(catalog[queries[i].album]) :
              catalog[queries[i].album][k] # queries[i].name
         /\ QueryFinished(i) ) =>
         /\ ev'.outcome = "error"
         /\ ev'.err = Some([album |-> queries[i].album, file |-> queries[i].name])
         /\ queries[i].origin_path = Some(<< queries[i].album >>)
         /\ stack.preview = None
         /\ LeftAlone(i)]_vars

\* the lookup of e1 in album "A" found nothing and was reported
C10_Witness ==
  /\ ev.op = "query_finished"
  /\ ev.id = PREVIEW
  /\ ev.outcome = "error"
  /\ ev.err = Some([album |-> "A", file |-> "e1"])
  /\ ev.path = << "A" >>
  /\ stack.preview = None

\* ------------------------------------------- the arms of a longer path
\* The pane's own operations never make a path of two elements, so the
\* `_` arms of open_or_play, add, add_all and prepare_preview are run here
\* on a DirStack that holds one: three levels, the path ["A", "e1"].
DeepLevels ==
  { Dir(<< >>, 0),
    Dir(<< Song("A", "e1") >>, 1),
    Dir(<< Song("A", "e1"), Song("A", "e2") >>, 2) }

DeepPreviews ==
  { None,
    Some([origin_path |-> Some(<< "A", "e1" >>), item |-> "e1", entries |-> << "e1" >>]) }

DeepStack(top, preview) ==
  [dirs |-> << Dir(<< DirItem("A") >>, 1), Dir(<< Song("A", "e1") >>, 1), top >>,
   path |-> << "A", "e1" >>,
   preview |-> preview]

InitDeep ==
  /\ stack \in { DeepStack(top, preview) : top \in DeepLevels, preview \in DeepPreviews }
  /\ initialized = TRUE
  /\ queries = << >>
  /\ cmds = << >>
  /\ catalog \in Catalogs
  /\ queueLen \in 0..MaxQueue
  /\ mpd = NewMpd
  /\ ev = Ev("new", "", NewPane, None)

\* BrowserPane::prepare_preview called on its own
PlanPreview == Commit(prepare_preview(St), "prepare_preview", "", None)

NextDeep ==
  \/ \E autoplay \in BOOLEAN : OpenOrPlay(autoplay)
  \/ Add
  \/ AddAll
  \/ PlanPreview

SpecDeep == InitDeep /\ [][NextDeep]_vars

C12_AddAllByPath ==
  [][(ev'.op = "add_all" /\ AddAll)
     => /\ stack' = stack
        /\ queries' = queries
        /\ Len(Path(stack)) \in {0, 1}
        /\ Len(Path(stack)) = 0 =>
             cmds' = << [cmd |-> "add", file |-> "/", album |-> "", pos |-> 0] >>
        /\ Len(Path(stack)) = 1 =>
             cmds' = << [cmd |-> "find_add", file |-> "", album |-> Path(stack)[1], pos |-> 0] >>]_vars

C12_Witness ==
  /\ ev.op = "add_all"
  /\ ev.path = << "A" >>
  /\ stack.preview # None
  /\ cmds = << [cmd |-> "find_add", file |-> "", album |-> "A", pos |-> 0] >>

\* C13: add(item) takes its filter from the path it finds when it is called:
\* at [g] the file name of the item and the album g, at the root the album
\* named by the item alone; the command keeps the album it was built with.
C13_AddFilterFromPath ==
  [][(ev'.op = "add" /\ Add)
     => LET item == Selected(Current(stack))[1] IN
        /\ stack' = stack
        /\ queries' = queries
        /\ Len(Path(stack)) \in {0, 1}
        /\ Len(Path(stack)) = 1 =>
             cmds' = << [cmd |-> "find_add", file |-> item.name,
                         album |-> Path(stack)[1], pos |-> 0] >>
        /\ Len(Path(stack)) = 0 =>
             cmds' = << [cmd |-> "find_add", file |-> "", album |-> item.name, pos |-> 0] >>]_vars

C13_Witness ==
  /\ ev.op = "add"
  /\ ev.path = << "A" >>
  /\ cmds = << [cmd |-> "find_add", file |-> "e2", album |-> "A", pos |-> 0] >>

\* C14: in every reachable state the path has one element less than the
\* stack has levels.
C14_PathLengthIsLevelsMinusOne == Len(Path(stack)) = Len(stack.dirs) - 1

\* an open at the root has pushed a level, and a Left has popped one
C14_Witness ==
  /\ ev.op = "back"
  /\ ev.path = << "B" >>
  /\ Len(stack.dirs) = 1
  /\ Path(stack) = << >>

\* C15: the path never has more than one element: only an open at the root
\* pushes a level.
C15_PathAtMostOne == Len(Path(stack)) <= 1

\* an open inside an album: a song is enqueued, no level is pushed
C15_Witness ==
  /\ ev.op = "open_or_play"
  /\ ev.path = << "A" >>
  /\ cmds # << >>
  /\ Path(stack) = << "A" >>
  /\ Len(stack.dirs) = 2

\* C18: open or next on a level without a selected item (an empty root, a
\* placeholder not yet filled) changes nothing: no level is pushed, no query
\* is submitted, no command is sent, the preview stays as it is.
C18_OpenWithoutSelectionIsNoOp ==
  [][(/\ ev'.op = "open_or_play"
      /\ Selected(Current(stack)) = None
      /\ \E autoplay \in BOOLEAN : OpenOrPlay(autoplay))
     => /\ stack' = stack
        /\ queries' = queries
        /\ cmds' = << >>]_vars

\* a second open pressed on the placeholder while its fetch is outstanding
C18_Witness ==
  /\ ev.op = "open_or_play"
  /\ ev.path = << "A" >>
  /\ Current(stack).items = << >>
  /\ Len(stack.dirs) = 2
  /\ \E i \in DOMAIN queries : queries[i].id = OPEN_OR_PLAY /\ ~queries[i].stale
  /\ cmds = << >>

\* C16: at the path [g] the top level is the empty placeholder or exactly
\* the songs fetched for the album g, and the songs of a drill-down are shown
\* nowhere but under the path of their album: a result fetched for another
\* album than the one the path names is never shown.
C16_LevelShowsOnlyLivePathGroup ==
  LET top == Current(stack).items IN
  /\ \A i \in DOMAIN top :
       top[i].kind = "song" => Path(stack) = << top[i].album >>
  /\ Len(Path(stack)) = 1 =>
       \/ top = << >>
       \/ \E cat \in Catalogs : top = list_titles(cat, Path(stack)[1])

\* open, Left, open of "B": the result of the earlier open arrives under the
\* path ["B"] while the fetch for "B" is outstanding, and is not shown
C16_Witness ==
  /\ ev.op = "query_finished"
  /\ ev.id = OPEN_OR_PLAY
  /\ ev.outcome = "superseded"
  /\ Path(stack) = << "B" >>
  /\ Current(stack).items = << >>
  /\ \E i \in DOMAIN queries :
       /\ queries[i].id = OPEN_OR_PLAY
       /\ ~queries[i].stale
       /\ queries[i].name = "B"

\* C20: whenever the preview is present it was computed for the item now
\* selected in the top level, and under the current path.
C20_PreviewIsOfSelectedItem ==
  stack.preview # None =>
    /\ Selected(Current(stack)) # None
    /\ stack.preview[1].item = Selected(Current(stack))[1].name
    /\ stack.preview[1].origin_path = Some(Path(stack))

\* ------------------------------------------------ an open left to finish
\* the placeholder pushed by an open at the root on g is on top and the
\* fetch for it is outstanding
OpenPending(g) ==
  /\ Path(stack) = << g >>
  /\ Current(stack).items = << >>
  /\ \E i \in DOMAIN queries :
       /\ queries[i].id = OPEN_OR_PLAY
       /\ ~queries[i].stale
       /\ queries[i].origin_path = Some(<< g >>)

Waiting == \E g \in {"A", "B"} : OpenPending(g)

\* While a fetch is outstanding the user does not navigate, the pane is not
\* shown anew and no Database or Reconnected event arrives; the database
\* itself may change.
NextLive ==
  \/ ~Waiting /\ BeforeShow
  \/ ~Waiting /\ \E event \in {"Database", "Reconnected"} : OnEvent(event)
  \/ ~Waiting /\ \E autoplay \in BOOLEAN : OpenOrPlay(autoplay)
  \/ ~Waiting /\ Back
  \/ ~Waiting /\ \E i \in DOMAIN Current(stack).items : SelectItem(i)
  \/ \E i \in 1..MaxOutstanding : QueryFinished(i)
  \/ CatalogUpdate

\* the play queue plays no part in the drill-down
InitLive == Init /\ queueLen = 0

\* the worker completes the oldest outstanding query in the end, so every
\* query completes; the others may complete before it
Fairness == WF_vars(QueryFinished(1))

SpecLive == InitLive /\ [][NextLive]_vars /\ Fairness

\* the fetch for g was applied in the last step: the level under [g] holds
\* the fetched songs and, when one is selected, the query of its preview
\* is the one submitted last
OpenShown(g) ==
  /\ ev.op = "query_finished"
  /\ ev.id = OPEN_OR_PLAY
  /\ ev.outcome = "applied"
  /\ Path(stack) = << g >>
  /\ \E cat \in Catalogs : Current(stack).items = list_titles(cat, g)
  /\ Selected(Current(stack)) # None =>
       /\ queries # << >>
       /\ LET q == queries[Len(queries)] IN
          /\ q.id = PREVIEW
          /\ ~q.stale
          /\ q.work = "find_songs"
          /\ q.album = g
          /\ q.name = Selected(Current(stack))[1].name
          /\ q.origin_path = Some(<< g >>)

NoInitOutstanding ==
  \A i \in DOMAIN queries : queries[i].id = INIT => queries[i].stale

\* C17 as stated: after an open at the root on g, with no further navigation
\* and no Database or Reconnected event, the placeholder is in the end
\* replaced by the fetched songs and the preview of the selected one is
\* queried.
C17_OpenEventuallyShown ==
  \A g \in {"A", "B"} : OpenPending(g) ~> OpenShown(g)

\* C17: the same, for an open made while no INIT query is outstanding (the
\* result of an earlier Database event or before_show, applied before the
\* fetch completes, rebuilds the stack), the preview being queried when the
\* fetched level is not empty.
C17_OpenEventuallyShownUnlessInit ==
  \A g \in {"A", "B"} : (OpenPending(g) /\ NoInitOutstanding) ~> OpenShown(g)

C17_Witness ==
  /\ OpenShown("A")
  /\ Len(Current(stack).items) = 3
  /\ Len(queries) = 1

\* ------------------------------------------------- the commands executed
\* bounds of the client thread's pending commands and of the server's queue
MaxPending == 4
MaxServer == 3

\* a handler's effects when its commands are followed to the server: they
\* join the commands the client thread has not yet run
CommitSend(s, op) ==
  \E done \in {s} :
    /\ Len(done.queries) <= MaxOutstanding
    /\ Len(mpd.pending) + Len(done.cmds) <= MaxPending
    /\ stack' = done.stack
    /\ initialized' = done.initialized
    /\ queries' = done.queries
    /\ cmds' = done.cmds
    /\ mpd' = [mpd EXCEPT !.pending = @ \o done.cmds]
    /\ ev' = Ev(op, "", done, None)
    /\ UNCHANGED << catalog, queueLen >>

OpenOrPlaySend(autoplay) ==
  CommitSend(open_or_play(St, autoplay, queueLen), "open_or_play")

AddSend ==
  /\ Selected(Current(stack)) # None
  /\ CommitSend(add(St, Selected(Current(stack))[1]), "add")

\* the songs a find_add matches on the server
Matches(cat, c) ==
  IF c.file = "" THEN Len(FindAlbum(cat, c.album))
  ELSE Len(FindFileAlbum(cat, c.album, c.file))

\* the server runs an enqueue: the matches join the end of the play queue
Enqueue(m, n) == [m EXCEPT !.len = @ + n, !.base = m.len, !.added = n]

\* the server runs play_last(queue_len): playback starts at that index, or
\* not at all when the queue has no such entry
Play(m, pos) == [m EXCEPT !.playing = IF pos < m.len THEN Some(pos) ELSE None]

\* the client thread runs the oldest pending command
ExecCommand ==
  /\ mpd.pending # << >>
  /\ \E c \in {Head(mpd.pending)} :
     \E m \in {[mpd EXCEPT !.pending = Tail(@)]} :
       /\ c.cmd \in {"find_add", "play_last"}
       /\ c.cmd = "find_add" => m.len + Matches(catalog, c) <= MaxServer
       /\ mpd' = IF c.cmd = "find_add" THEN Enqueue(m, Matches(catalog, c))
                 ELSE Play(m, c.pos)
       /\ ev' = [Quiet("exec") EXCEPT !.id = c.cmd]
  /\ cmds' = << >>
  /\ UNCHANGED << stack, initialized, queries, catalog, queueLen >>

\* the queue event of the server's idle channel: the length known to the
\* pane becomes the server's
QueueSync ==
  /\ queueLen # mpd.len
  /\ queueLen' = mpd.len
  /\ cmds' = << >>
  /\ ev' = Quiet("env")
  /\ UNCHANGED << stack, initialized, queries, catalog, mpd >>

\* no other client: the play queue changes through this pane's commands
\* only; the database holds one album of one song and does not change
InitQueue ==
  /\ Init
  /\ queueLen = 0
  /\ catalog = [A |-> << "e2" >>, B |-> << >>]

NextQueue ==
  \/ BeforeShow
  \/ \E autoplay \in BOOLEAN : OpenOrPlaySend(autoplay)
  \/ AddSend
  \/ Back
  \/ \E i \in 1..MaxOutstanding : QueryFinished(i)
  \/ ExecCommand
  \/ QueueSync

SpecQueue == InitQueue /\ [][NextQueue]_vars

\* C19: with no other client changing the play queue, whatever adds and
\* opens came before and whether or not their enqueues have reached the
\* known length, the play command of an open with autoplay starts playback
\* at an entry the enqueue of the same open put into the queue.
C19_PlayStartsAtOwnEntry ==
  (ev.op = "exec" /\ ev.id = "play_last") =>
    /\ mpd.playing # None
    /\ mpd.added > 0
    /\ mpd.playing[1] \in mpd.base..(mpd.base + mpd.added - 1)

====
